---- MODULE Spec2Model ----
(***************************************************************************)
(* The interactive configuration shell of crypto_journey/crypto_shell.py   *)
(* (class CryptoShell, a cmd.Cmd command processor) as a state machine:    *)
(* one action per command handler, the configuration mapping, the files of *)
(* the crypto_journey directory and the state of the command loop.         *)
(*                                                                         *)
(* Python values are records [t, s, n]: a str carries its text in s, a     *)
(* float or an int carries its magnitude in n (floats in thousandths), and *)
(* the float nan is the float whose s is "nan".                            *)
(***************************************************************************)
EXTENDS Integers, Sequences, FiniteSets, TLC

VARIABLES
    config,    \* self.config: the in-memory configuration (any JSON value after a load)
    files,     \* content of each file of the crypto_journey directory
    readOnly,  \* the files of that directory that cannot be opened for writing
    loop,      \* "running", "stopped" (exit/quit returned True) or "crashed" (exception left cmdloop)
    out,       \* the message the last command printed
    hist,      \* the last command line executed and the configuration before it
    prevSave,  \* the save_config executed just before the last command, if any
    ncmds,     \* number of command lines read so far
    strategy,      \* MLTrader: "created" before initialize has run, then "initialized"
    last_trade,    \* MLTrader.last_trade: "None", "buy" or "sell" ("unset" before initialize)
    cash_at_risk,  \* MLTrader.cash_at_risk, a float
    iteration,     \* what the last on_trading_iteration read, computed and called
    last_order,    \* side of the last order submitted since initialize, "None" if none
    niter          \* number of trading iterations run so far

shellVars == <<config, files, readOnly, loop, out, hist, prevSave, ncmds>>
traderVars == <<strategy, last_trade, cash_at_risk, iteration, last_order, niter>>
vars == <<shellVars, traderVars>>

\* Longest session explored, in command lines.
MaxCmds == 3

\* Longest run of the trading bot explored, in trading iterations.
MaxIters == 3

\* Width of a float's mantissa in the model, in bits (a double has 53).
MantissaBits == 9

(***************************************************************************)
(* Python values                                                           *)
(***************************************************************************)
PyStr(s) == [t |-> "str", s |-> s, n |-> 0]
PyFloat(m) == [t |-> "float", s |-> "", n |-> m]
PyNaN == [t |-> "float", s |-> "nan", n |-> 0]
PyInt(i) == [t |-> "int", s |-> "", n |-> i]

\* A JSON document once loaded: a dict (m maps its keys to values), a list
\* (elems are the strings it contains) or a bare number.
PyDict(m) == [kind |-> "dict", m |-> m, elems |-> {}]
PyList(e) == [kind |-> "list", m |-> [k \in {} |-> PyStr("")], elems |-> e]
PyNum == [kind |-> "num", m |-> [k \in {} |-> PyStr("")], elems |-> {}]

(***************************************************************************)
(* Class attributes of CryptoShell                                         *)
(***************************************************************************)
ConfigKeys ==
    {"exchange", "strategy", "coin", "quote", "cash_at_risk",
     "start_date", "end_date", "min_timestep"}

DefaultConfig ==
    PyDict([k \in ConfigKeys |->
        CASE k = "exchange" -> PyStr("coinbase")
          [] k = "strategy" -> PyStr("random")
          [] k = "coin" -> PyStr("BTC")
          [] k = "quote" -> PyStr("USD")
          [] k = "cash_at_risk" -> PyFloat(250)
          [] k = "start_date" -> PyStr("2023-06-01")
          [] k = "end_date" -> PyStr("2023-12-31")
          [] k = "min_timestep" -> PyStr("day")])

available_exchanges == {"coinbase", "kraken", "binance", "bitfinex"}
available_strategies == {"random", "sma_crossover", "rsi_strategy", "sentiment_based"}

(***************************************************************************)
(* Words of a command line.  A word is its text together with its lexical  *)
(* shape: "num" is a decimal literal a * 10^b, "ymd" is three digit groups *)
(* a, b, c (the first of four digits) joined by the separator sep, "word"  *)
(* is anything else.                                                       *)
(***************************************************************************)
Word(text) == [text |-> text, shape |-> "word", a |-> 0, b |-> 0, c |-> 0, sep |-> ""]
Num(text, mant, exp) == [text |-> text, shape |-> "num", a |-> mant, b |-> exp, c |-> 0, sep |-> ""]
Ymd(text, y, mo, d, sep) == [text |-> text, shape |-> "ymd", a |-> y, b |-> mo, c |-> d, sep |-> sep]

\* str.lower() on the parameter names typed in this model.
Lower(s) ==
    CASE s = "EXCHANGE" -> "exchange"
      [] OTHER -> s

RECURSIVE Pow10(_)
Pow10(e) == IF e = 0 THEN 1 ELSE 10 * Pow10(e - 1)

\* float(param_value): the literal in thousandths, nan for the text "nan",
\* ValueError for every other word.
ParseFloat(w) ==
    IF w.shape = "num" /\ w.b >= -3
    THEN [ok |-> TRUE, v |-> PyFloat(w.a * Pow10(w.b + 3))]
    ELSE IF w.shape = "word" /\ w.text \in {"nan", "NaN"}
    THEN [ok |-> TRUE, v |-> PyNaN]
    ELSE [ok |-> FALSE, v |-> PyNaN]

\* The comparisons of line 128; every comparison with nan is False.
FloatLessEqZero(v) == v.s # "nan" /\ v.n <= 0
FloatGreaterOne(v) == v.s # "nan" /\ v.n > 1000

IsLeap(y) == (y % 4 = 0 /\ y % 100 # 0) \/ y % 400 = 0

DaysInMonth(y, mo) ==
    IF mo = 2 THEN (IF IsLeap(y) THEN 29 ELSE 28)
    ELSE IF mo \in {4, 6, 9, 11} THEN 30 ELSE 31

\* datetime.datetime.strptime(param_value, '%Y-%m-%d') returns (TRUE) or
\* raises ValueError (FALSE).
StrptimeOk(w) ==
    /\ w.shape = "ymd"
    /\ w.sep = "-"
    /\ w.a \in 1..9999
    /\ w.b \in 1..12
    /\ w.c \in 1..DaysInMonth(w.a, w.b)

(***************************************************************************)
(* The value words typed in this model.  The texts a date field can hold   *)
(* are the texts of these words.                                           *)
(***************************************************************************)
ValueWords ==
    {Word("kraken"), Word("foo"), Word("binance"), Word("rsi_strategy"),
     Word("ETH"), Word("EUR"), Word("minute"), Word("bar"), Word("abc"),
     Word("nan"),
     Num("0.5", 5, -1), Num("1", 1, 0), Num("1.5", 15, -1), Num("0", 0, 0),
     Ymd("2023-01-01", 2023, 1, 1, "-"), Ymd("2023/01/01", 2023, 1, 1, "/"),
     Ymd("2023-02-30", 2023, 2, 30, "-"), Ymd("2024-02-29", 2024, 2, 29, "-"),
     Ymd("2023-13-01", 2023, 13, 1, "-"),
     Ymd("2023-06-01", 2023, 6, 1, "-"), Ymd("2023-12-31", 2023, 12, 31, "-")}

\* The word a text is read as, when a stored string is parsed again.
WordOf(text) ==
    IF \E w \in ValueWords : w.text = text
    THEN CHOOSE w \in ValueWords : w.text = text
    ELSE Word(text)

(***************************************************************************)
(* do_set_parameter                                                        *)
(***************************************************************************)
Result(cfg, msg, raised) == [config |-> cfg, out |-> msg, raised |-> raised]

\* Mutation: only start_date is checked against the date format.
ValidateStartDateOnly(name, w) ==
    CASE name = "exchange" ->
            IF w.text \notin available_exchanges
            THEN [ok |-> FALSE, err |-> "Error: Unknown exchange", v |-> PyStr(w.text)]
            ELSE [ok |-> TRUE, err |-> "", v |-> PyStr(w.text)]
      [] name = "strategy" ->
            IF w.text \notin available_strategies
            THEN [ok |-> FALSE, err |-> "Error: Unknown strategy", v |-> PyStr(w.text)]
            ELSE [ok |-> TRUE, err |-> "", v |-> PyStr(w.text)]
      [] name = "cash_at_risk" ->
            LET f == ParseFloat(w) IN
            IF ~f.ok
            THEN [ok |-> FALSE, err |-> "Error: cash_at_risk must be a float value", v |-> PyStr(w.text)]
            ELSE IF FloatLessEqZero(f.v) \/ FloatGreaterOne(f.v)
            THEN [ok |-> FALSE, err |-> "Error: cash_at_risk must be between 0 and 1", v |-> f.v]
            ELSE [ok |-> TRUE, err |-> "", v |-> f.v]
      [] name = "start_date" ->
            IF ~StrptimeOk(w)
            THEN [ok |-> FALSE, err |-> "Error: Invalid date format", v |-> PyStr(w.text)]
            ELSE [ok |-> TRUE, err |-> "", v |-> PyStr(w.text)]
      [] OTHER -> [ok |-> TRUE, err |-> "", v |-> PyStr(w.text)]

\* Lines 114-140: the validation of one (name, value) pair.  ok is FALSE
\* with the error printed, or TRUE with the value to be stored.
Validate(name, w) ==
    CASE name = "exchange" ->
            IF w.text \notin available_exchanges
            THEN [ok |-> FALSE, err |-> "Error: Unknown exchange", v |-> PyStr(w.text)]
            ELSE [ok |-> TRUE, err |-> "", v |-> PyStr(w.text)]
      [] name = "strategy" ->
            IF w.text \notin available_strategies
            THEN [ok |-> FALSE, err |-> "Error: Unknown strategy", v |-> PyStr(w.text)]
            ELSE [ok |-> TRUE, err |-> "", v |-> PyStr(w.text)]
      [] name = "cash_at_risk" ->
            LET f == ParseFloat(w) IN
            IF ~f.ok
            THEN [ok |-> FALSE, err |-> "Error: cash_at_risk must be a float value", v |-> PyStr(w.text)]
            ELSE IF FloatLessEqZero(f.v) \/ FloatGreaterOne(f.v)
            THEN [ok |-> FALSE, err |-> "Error: cash_at_risk must be between 0 and 1", v |-> f.v]
            ELSE [ok |-> TRUE, err |-> "", v |-> f.v]
      [] name \in {"start_date", "end_date"} ->
            IF ~StrptimeOk(w)
            THEN [ok |-> FALSE, err |-> "Error: Invalid date format", v |-> PyStr(w.text)]
            ELSE [ok |-> TRUE, err |-> "", v |-> PyStr(w.text)]
      [] OTHER -> [ok |-> TRUE, err |-> "", v |-> PyStr(w.text)]

\* Lines 143-148: `param_name in self.config`, the item assignment and, for
\* an unknown name, self.config.keys().  On a number `in` raises TypeError;
\* on a list the item assignment raises TypeError when the list contains the
\* name, and keys() raises AttributeError when it does not.
StoreParam(cfg, name, v) ==
    CASE cfg.kind = "dict" ->
            IF name \in DOMAIN cfg.m
            THEN Result(PyDict([cfg.m EXCEPT ![name] = v]), "Parameter set", FALSE)
            ELSE Result(cfg, "Error: Unknown parameter", FALSE)
      [] cfg.kind = "list" ->
            IF name \in cfg.elems
            THEN Result(cfg, "TypeError", TRUE)
            ELSE Result(cfg, "AttributeError", TRUE)
      [] OTHER -> Result(cfg, "TypeError", TRUE)

do_set_parameter(cfg, args) ==
    IF Len(args) < 2
    THEN Result(cfg, "Error: Missing parameter name or value", FALSE)
    ELSE LET param_name == Lower(args[1].text)
             check == Validate(param_name, args[2])
         IN IF ~check.ok
            THEN Result(cfg, check.err, FALSE)
            ELSE StoreParam(cfg, param_name, check.v)

(***************************************************************************)
(* The read-only commands                                                  *)
(***************************************************************************)
\* self.config[key] evaluates without raising.
HasItem(cfg, key) == cfg.kind = "dict" /\ key \in DOMAIN cfg.m

do_list_exchanges(cfg) ==
    IF HasItem(cfg, "exchange")
    THEN Result(cfg, "Available exchanges", FALSE)
    ELSE Result(cfg, IF cfg.kind = "dict" THEN "KeyError" ELSE "TypeError", TRUE)

do_list_strategies(cfg) ==
    IF HasItem(cfg, "strategy")
    THEN Result(cfg, "Available strategies", FALSE)
    ELSE Result(cfg, IF cfg.kind = "dict" THEN "KeyError" ELSE "TypeError", TRUE)

\* self.config.items() exists on a dict only.
do_show_config(cfg) ==
    IF cfg.kind = "dict"
    THEN Result(cfg, "Current configuration", FALSE)
    ELSE Result(cfg, "AttributeError", TRUE)

\* strptime of a stored value: TypeError unless it is a str, ValueError
\* unless the str parses.
StoredDateOk(cfg, key) ==
    /\ HasItem(cfg, key)
    /\ cfg.m[key].t = "str"
    /\ StrptimeOk(WordOf(cfg.m[key].s))

\* Mutation: the parsed start date is stored back into the configuration.
do_run_backtest_StoresParsedDate(cfg) ==
    IF /\ ~do_show_config(cfg).raised
       /\ StoredDateOk(cfg, "start_date")
       /\ StoredDateOk(cfg, "end_date")
       /\ HasItem(cfg, "exchange")
       /\ HasItem(cfg, "coin")
       /\ HasItem(cfg, "quote")
       /\ HasItem(cfg, "strategy")
    THEN Result(PyDict([cfg.m EXCEPT !["start_date"] = PyStr("datetime")]),
                "Note: This is a placeholder", FALSE)
    ELSE Result(cfg, "Error running backtest", FALSE)

\* Everything of do_run_backtest is inside its try: every exception ends in
\* the error message, none leaves the handler.
do_run_backtest(cfg) ==
    IF /\ ~do_show_config(cfg).raised
       /\ StoredDateOk(cfg, "start_date")
       /\ StoredDateOk(cfg, "end_date")
       /\ HasItem(cfg, "exchange")
       /\ HasItem(cfg, "coin")
       /\ HasItem(cfg, "quote")
       /\ HasItem(cfg, "strategy")
    THEN Result(cfg, "Note: This is a placeholder", FALSE)
    ELSE Result(cfg, "Error running backtest", FALSE)

(***************************************************************************)
(* json.dump / json.load.  A JSON text is modelled by its literals: a      *)
(* string, a number (frac says it is written with a fraction part, as repr *)
(* writes every float) or the NaN literal json.dump writes for nan.        *)
(***************************************************************************)
JsonString(s) == [j |-> "string", s |-> s, n |-> 0, frac |-> FALSE]
JsonNumber(n, frac) == [j |-> "number", s |-> "", n |-> n, frac |-> frac]
JsonNaN == [j |-> "NaN", s |-> "", n |-> 0, frac |-> FALSE]

\* Mutation: floats written through int(), without their fraction part.
JsonDumpValueTruncating(v) ==
    CASE v.t = "str" -> JsonString(v.s)
      [] v.t = "float" /\ v.s = "nan" -> JsonNaN
      [] OTHER -> JsonNumber(v.n \div 1000, FALSE)

JsonDumpValue(v) ==
    CASE v.t = "str" -> JsonString(v.s)
      [] v.t = "float" /\ v.s = "nan" -> JsonNaN
      [] v.t = "float" /\ v.s # "nan" -> JsonNumber(v.n, TRUE)
      [] OTHER -> JsonNumber(v.n, FALSE)

JsonLoadValue(l) ==
    CASE l.j = "string" -> PyStr(l.s)
      [] l.j = "NaN" -> PyNaN
      [] l.j = "number" /\ l.frac -> PyFloat(l.n)
      [] OTHER -> PyInt(l.n)

\* The content of a file: absent, not JSON, not decodable as text, or a
\* JSON text (an object with its members, an array, a number).
Absent == [state |-> "absent", top |-> "", members |-> [k \in {} |-> JsonNaN], elems |-> {}]
Malformed == [state |-> "malformed", top |-> "", members |-> [k \in {} |-> JsonNaN], elems |-> {}]
Undecodable == [state |-> "undecodable", top |-> "", members |-> [k \in {} |-> JsonNaN], elems |-> {}]
JsonText(top, members, elems) == [state |-> "json", top |-> top, members |-> members, elems |-> elems]

json_dump(cfg) ==
    JsonText(CASE cfg.kind = "dict" -> "object" [] cfg.kind = "list" -> "array" [] OTHER -> "number",
             [k \in DOMAIN cfg.m |-> JsonDumpValue(cfg.m[k])],
             cfg.elems)

json_load(text) ==
    CASE text.top = "object" -> PyDict([k \in DOMAIN text.members |-> JsonLoadValue(text.members[k])])
      [] text.top = "array" -> PyList(text.elems)
      [] OTHER -> PyNum

(***************************************************************************)
(* do_save_config / do_load_config.  A file name is the sequence of its    *)
(* parts, so that endswith('.json') is a test of the last part.            *)
(***************************************************************************)
DefaultFile == <<"crypto_config", ".json">>

EndsWithJson(name) == Len(name) > 0 /\ name[Len(name)] = ".json"

\* Lines 152-157 and 168-173.
SaveFilename(arg) ==
    IF arg = <<>> THEN DefaultFile
    ELSE IF ~EndsWithJson(arg) THEN Append(arg, ".json") ELSE arg

\* Mutation: an argument without the extension falls back to the default file.
LoadFilenameDefaultsWithoutExtension(arg) ==
    IF arg = <<>> \/ ~EndsWithJson(arg) THEN DefaultFile ELSE arg

LoadFilename(arg) ==
    IF arg = <<>> THEN DefaultFile
    ELSE IF ~EndsWithJson(arg) THEN Append(arg, ".json") ELSE arg

\* The new directory content and the message; open(..., 'w') raises on a
\* file that cannot be written and the handler prints the error.
do_save_config(cfg, dir, ro, arg) ==
    LET filename == SaveFilename(arg) IN
    IF filename \in ro
    THEN [files |-> dir, out |-> "Error saving configuration"]
    ELSE [files |-> [dir EXCEPT ![filename] = json_dump(cfg)], out |-> "Configuration saved"]

\* Mutation: a missing file resets the configuration to the defaults.
do_load_config_ResetsOnMissing(cfg, dir, arg) ==
    LET filename == LoadFilename(arg)
        content == dir[filename]
    IN CASE content.state = "absent" -> Result(DefaultConfig, "Error: File not found", FALSE)
         [] content.state = "malformed" -> Result(cfg, "Error: Invalid JSON format", FALSE)
         [] content.state = "undecodable" -> Result(cfg, "Error loading configuration", FALSE)
         [] OTHER -> Result(json_load(content), "Configuration loaded", FALSE)

\* Mutation: self.config is emptied before the file is parsed.
do_load_config_ClearsBeforeParse(cfg, dir, arg) ==
    LET filename == LoadFilename(arg)
        content == dir[filename]
    IN CASE content.state = "absent" -> Result(cfg, "Error: File not found", FALSE)
         [] content.state = "malformed" ->
                Result(PyDict([k \in {} |-> PyStr("")]), "Error: Invalid JSON format", FALSE)
         [] content.state = "undecodable" -> Result(cfg, "Error loading configuration", FALSE)
         [] OTHER -> Result(json_load(content), "Configuration loaded", FALSE)

\* Mutation: a loaded object only updates the keys the configuration has.
do_load_config_UpdatesKnownKeys(cfg, dir, arg) ==
    LET filename == LoadFilename(arg)
        content == dir[filename]
        loaded == json_load(content)
    IN CASE content.state = "absent" -> Result(cfg, "Error: File not found", FALSE)
         [] content.state = "malformed" -> Result(cfg, "Error: Invalid JSON format", FALSE)
         [] content.state = "undecodable" -> Result(cfg, "Error loading configuration", FALSE)
         [] OTHER ->
                IF loaded.kind = "dict" /\ cfg.kind = "dict"
                THEN Result(PyDict([k \in DOMAIN cfg.m |->
                                       IF k \in DOMAIN loaded.m THEN loaded.m[k] ELSE cfg.m[k]]),
                            "Configuration loaded", FALSE)
                ELSE Result(cfg, "Configuration loaded", FALSE)

do_load_config(cfg, dir, arg) ==
    LET filename == LoadFilename(arg)
        content == dir[filename]
    IN CASE content.state = "absent" -> Result(cfg, "Error: File not found", FALSE)
         [] content.state = "malformed" -> Result(cfg, "Error: Invalid JSON format", FALSE)
         [] content.state = "undecodable" -> Result(cfg, "Error loading configuration", FALSE)
         [] OTHER -> Result(json_load(content), "Configuration loaded", FALSE)

(***************************************************************************)
(* The command lines typed in this model.  A line is its command name and  *)
(* its argument: words is the argument as arg.split() cuts it, farg is the *)
(* argument taken as a file name.                                          *)
(***************************************************************************)
Line(cmd, words, farg) == [cmd |-> cmd, words |-> words, farg |-> farg]

OtherFile == <<"a", ".json">>
FileNames == {DefaultFile, OtherFile}
FileArgs == {<<>>, <<"a">>, <<"a", ".json">>, <<"crypto_config">>}

SetArgs ==
    {<<>>, <<Word("coin")>>,
     <<Word("exchange"), Word("kraken")>>, <<Word("exchange"), Word("foo")>>,
     <<Word("EXCHANGE"), Word("binance")>>,
     <<Word("strategy"), Word("rsi_strategy")>>, <<Word("strategy"), Word("foo")>>,
     <<Word("coin"), Word("ETH")>>,
     <<Word("quote"), Word("EUR"), Word("bar")>>,
     <<Word("cash_at_risk"), Num("0.5", 5, -1)>>, <<Word("cash_at_risk"), Num("1", 1, 0)>>,
     <<Word("cash_at_risk"), Num("1.5", 15, -1)>>, <<Word("cash_at_risk"), Num("0", 0, 0)>>,
     <<Word("cash_at_risk"), Word("abc")>>, <<Word("cash_at_risk"), Word("nan")>>,
     <<Word("start_date"), Ymd("2023-01-01", 2023, 1, 1, "-")>>,
     <<Word("start_date"), Ymd("2023/01/01", 2023, 1, 1, "/")>>,
     <<Word("start_date"), Ymd("2023-02-30", 2023, 2, 30, "-")>>,
     <<Word("end_date"), Ymd("2024-02-29", 2024, 2, 29, "-")>>,
     <<Word("end_date"), Ymd("2023-13-01", 2023, 13, 1, "-")>>,
     <<Word("min_timestep"), Word("minute")>>,
     <<Word("foo"), Word("bar")>>}

Lines ==
    {Line(c, <<>>, <<>>) : c \in {"", "help", "version", "list_exchanges", "list_strategies",
                                  "show_config", "run_backtest", "exit", "quit", "EXIT", "foo"}}
    \cup {Line("help", <<Word("exit")>>, <<>>)}
    \cup {Line("set_parameter", a, <<>>) : a \in SetArgs}
    \cup {Line(c, <<>>, f) : c \in {"save_config", "load_config"}, f \in FileArgs}

\* The do_* methods of the class.
Commands ==
    {"exit", "quit", "help", "version", "list_exchanges", "list_strategies", "show_config",
     "set_parameter", "save_config", "load_config", "run_backtest"}

\* cmd.Cmd.onecmd: an empty line goes to emptyline, a name with a do_ method
\* of exactly that name to the method, anything else to default.
Handler(cmd) ==
    IF cmd = "" THEN "emptyline"
    ELSE IF cmd \in Commands THEN cmd ELSE "default"

(***************************************************************************)
(* Floats of the trading bot (crypto_journey/randobot.py).  A float is     *)
(* m * 2^e with a mantissa of MantissaBits bits, and every operation       *)
(* rounds its exact result to the nearest float, ties to the even          *)
(* mantissa, as IEEE 754 arithmetic does.  Zero is the float with m = 0.   *)
(***************************************************************************)
RECURSIVE Pow2(_)
Pow2(k) == IF k = 0 THEN 1 ELSE 2 * Pow2(k - 1)

RECURSIVE BitLen(_)
BitLen(n) == IF n = 0 THEN 0 ELSE 1 + BitLen(n \div 2)

Abs(n) == IF n < 0 THEN -n ELSE n

Sgn(n) == IF n < 0 THEN -1 ELSE 1

Float(m, e) == [m |-> m, e |-> e]

Zero == Float(0, 0)

\* The float nearest to n * 2^e.
Round(n, e) ==
    IF n = 0 THEN Zero
    ELSE LET a == Abs(n)
             L == BitLen(a)
         IN  IF L <= MantissaBits
             THEN Float(n * Pow2(MantissaBits - L), e - (MantissaBits - L))
             ELSE LET k == L - MantissaBits
                      q == a \div Pow2(k)
                      r == a % Pow2(k)
                      half == Pow2(k - 1)
                      q2 == IF r > half \/ (r = half /\ q % 2 = 1) THEN q + 1 ELSE q
                  IN  IF q2 = Pow2(MantissaBits)
                      THEN Float(Sgn(n) * Pow2(MantissaBits - 1), e + k + 1)
                      ELSE Float(Sgn(n) * q2, e + k)

FromInt(i) == Round(i, 0)

\* a * b, rounded.
FMul(a, b) == Round(a.m * b.m, a.e + b.e)

\* a / b for b # 0, rounded: the quotient is computed to two bits more than
\* a mantissa holds, with a last bit that records a nonzero remainder.
FDiv(a, b) ==
    IF a.m = 0 THEN Zero
    ELSE LET sh == MantissaBits + 2
             q == (Abs(a.m) * Pow2(sh)) \div Abs(b.m)
             r == (Abs(a.m) * Pow2(sh)) % Abs(b.m)
             n == 2 * q + (IF r = 0 THEN 0 ELSE 1)
         IN  Round(Sgn(a.m) * Sgn(b.m) * n, a.e - b.e - sh - 1)

\* a > b.
FGreater(a, b) ==
    IF a.m > 0 /\ b.m > 0 THEN a.e > b.e \/ (a.e = b.e /\ a.m > b.m)
    ELSE IF a.m < 0 /\ b.m < 0 THEN a.e < b.e \/ (a.e = b.e /\ a.m > b.m)
    ELSE a.m > 0 \/ (a.m = 0 /\ b.m < 0)

(***************************************************************************)
(* The trading bot (class MLTrader of crypto_journey/randobot.py).         *)
(***************************************************************************)
\* What get_last_price returns: None or a float.
NoPrice == [some |-> FALSE, v |-> Zero]

Price(v) == [some |-> TRUE, v |-> v]

\* The calls an iteration makes on the framework, in order.
SellAll == [op |-> "sell_all", side |-> "", qty |-> Zero, type |-> ""]

CreateOrder(side, quantity) ==
    [op |-> "create_order", side |-> side, qty |-> quantity, type |-> "market"]

SubmitOrder(side, quantity) ==
    [op |-> "submit_order", side |-> side, qty |-> quantity, type |-> "market"]

IsSubmit(call) == call.op = "submit_order"

Submitted(calls) == SelectSeq(calls, IsSubmit)

\* Lines 12-18: the attributes initialize sets (the market, the sleep time,
\* the coin and the quote are not read by any decision).
initialize(risk) == [last_trade |-> "None", cash_at_risk |-> risk]

\* position_sizing that divides without looking at the price first: None
\* as a divisor raises TypeError.
position_sizing_WithoutNoneCheck(cash, last_price, risk) ==
    [cash |-> cash, last_price |-> last_price,
     quantity |-> IF last_price.some THEN FDiv(FMul(cash, risk), last_price.v) ELSE Zero,
     raised |-> ~last_price.some]

\* Lines 20-32: the quantity is 0 without a price, else cash * cash_at_risk
\* / last_price, evaluated left to right.  (The int 0 of line 29 and the
\* float 0.0 compare alike and are one value here.)
position_sizing(cash, last_price, risk) ==
    [cash |-> cash, last_price |-> last_price,
     quantity |-> IF ~last_price.some THEN Zero
                  ELSE FDiv(FMul(cash, risk), last_price.v),
     raised |-> FALSE]

\* The guard with >= in place of > at line 38.
AffordableNonStrict(cash, last_price, quantity) ==
    /\ last_price.some
    /\ FGreater(quantity, Zero)
    /\ ~FGreater(FMul(quantity, last_price.v), cash)

\* Lines 37-38: the two nested conditions under which a choice is drawn.
Affordable(cash, last_price, quantity) ==
    /\ last_price.some
    /\ FGreater(quantity, Zero)
    /\ FGreater(cash, FMul(quantity, last_price.v))

\* The branches with sell_all called when the last trade was on the same
\* side as the new order.
DecideSellsAllOnSameSide(last, quantity, choice) ==
    IF choice = 0 THEN [last_trade |-> last, calls |-> <<>>]
    ELSE LET side == IF choice = 1 THEN "buy" ELSE "sell"
         IN  [last_trade |-> side,
              calls |-> (IF last = side THEN <<SellAll>> ELSE <<>>)
                        \o <<CreateOrder(side, quantity), SubmitOrder(side, quantity)>>]

\* The branches with line 68 (self.last_trade = "sell") left out.
DecideForgetsSell(last, quantity, choice) ==
    IF choice = 0 THEN [last_trade |-> last, calls |-> <<>>]
    ELSE IF choice = 1
    THEN [last_trade |-> "buy",
          calls |-> (IF last = "sell" THEN <<SellAll>> ELSE <<>>)
                    \o <<CreateOrder("buy", quantity), SubmitOrder("buy", quantity)>>]
    ELSE [last_trade |-> last,
          calls |-> (IF last = "buy" THEN <<SellAll>> ELSE <<>>)
                    \o <<CreateOrder("sell", quantity), SubmitOrder("sell", quantity)>>]

\* Lines 41-68: hold (0), buy (1) or sell (2).
Decide(last, quantity, choice) ==
    IF choice = 0 THEN [last_trade |-> last, calls |-> <<>>]
    ELSE IF choice = 1
    THEN [last_trade |-> "buy",
          calls |-> (IF last = "sell" THEN <<SellAll>> ELSE <<>>)
                    \o <<CreateOrder("buy", quantity), SubmitOrder("buy", quantity)>>]
    ELSE [last_trade |-> "sell",
          calls |-> (IF last = "buy" THEN <<SellAll>> ELSE <<>>)
                    \o <<CreateOrder("sell", quantity), SubmitOrder("sell", quantity)>>]

\* No choice was drawn.
NoChoice == -1

\* Lines 34-68: one trading iteration from the remembered side, the cash and
\* the price the framework reports, and the number random.choice returns if
\* it is called.
on_trading_iteration(last, cash, last_price, risk, choice) ==
    LET ps == position_sizing(cash, last_price, risk)
        drew == ~ps.raised /\ Affordable(ps.cash, ps.last_price, ps.quantity)
        d == IF drew THEN Decide(last, ps.quantity, choice)
             ELSE [last_trade |-> last, calls |-> <<>>]
    IN  [before |-> last, cash |-> ps.cash, last_price |-> ps.last_price,
         quantity |-> ps.quantity, raised |-> ps.raised, drew |-> drew,
         choice |-> IF drew THEN choice ELSE NoChoice,
         last_trade |-> d.last_trade, calls |-> d.calls]

\* The inputs explored: the cash the account holds, the fraction of it put
\* at risk (0.25 and 1), the prices quoted, the numbers random.choice draws.
CashValues == {FromInt(-100), Zero, FromInt(1), FromInt(1000)}

RiskValues == {Round(1, -2), FromInt(1)}

PriceValues == {NoPrice} \cup {Price(FromInt(p)) : p \in {49, 50, 61}}

Choices == {0, 1, 2}

NoIteration == on_trading_iteration("unset", Zero, NoPrice, Zero, 0)

\* The bot before the framework has called initialize.
TraderCreated ==
    /\ strategy = "created"
    /\ last_trade = "unset"
    /\ cash_at_risk = Zero
    /\ iteration = NoIteration
    /\ last_order = "None"
    /\ niter = 0

(***************************************************************************)
(* The command loop (main, line 225: CryptoShell().cmdloop()).             *)
(***************************************************************************)
NoLine == Line("(start)", <<>>, <<>>)
NoSave == [was |-> FALSE, farg |-> <<>>, cfg |-> DefaultConfig, saved |-> FALSE]

\* Files found in the directory when the shell starts.
HostileObject ==
    JsonText("object",
             [k \in {"exchange", "cash_at_risk", "start_date", "foo"} |->
                 CASE k = "exchange" -> JsonString("foo")
                   [] k = "cash_at_risk" -> JsonNumber(1500, TRUE)
                   [] k = "start_date" -> JsonString("2023/01/01")
                   [] k = "foo" -> JsonString("x")],
             {})
ArrayText == JsonText("array", [k \in {} |-> JsonNaN], {"coin"})
NumberText == JsonText("number", [k \in {} |-> JsonNaN], {})
ForeignContents == {Absent, Malformed, Undecodable, HostileObject, ArrayText, NumberText}

Init ==
    /\ config = DefaultConfig
    /\ files \in {[f \in FileNames |-> IF f = DefaultFile THEN Absent ELSE c] : c \in ForeignContents}
    /\ readOnly \in {{}, {OtherFile}}
    /\ loop = "running"
    /\ out = ""
    /\ hist = [line |-> NoLine, pre |-> DefaultConfig]
    /\ prevSave = NoSave
    /\ ncmds = 0
    /\ TraderCreated

\* The loop reads a line while no handler has returned True or raised.
Reads(line, handler) ==
    /\ loop = "running"
    /\ ncmds < MaxCmds
    /\ Handler(line.cmd) = handler

\* The bookkeeping of one executed line.
Executed(line) ==
    /\ hist' = [line |-> line, pre |-> config]
    /\ prevSave' = IF Handler(hist.line.cmd) = "save_config"
                   THEN [was |-> TRUE, farg |-> hist.line.farg, cfg |-> hist.pre,
                         saved |-> out = "Configuration saved"]
                   ELSE NoSave
    /\ ncmds' = ncmds + 1
    /\ UNCHANGED readOnly
    /\ UNCHANGED traderVars

\* postcmd of a handler that returned None or raised.
Returned(res) ==
    /\ config' = res.config
    /\ out' = res.out
    /\ loop' = IF res.raised THEN "crashed" ELSE "running"

Exit ==
    \E line \in Lines :
        /\ Reads(line, "exit")
        /\ loop' = "stopped" /\ out' = "Goodbye!"
        /\ UNCHANGED <<config, files>>
        /\ Executed(line)

Quit ==
    \E line \in Lines :
        /\ Reads(line, "quit")
        /\ loop' = "stopped" /\ out' = "Goodbye!"
        /\ UNCHANGED <<config, files>>
        /\ Executed(line)

Help ==
    \E line \in Lines :
        /\ Reads(line, "help")
        /\ Returned(Result(config, IF line.words # <<>> THEN "help on command" ELSE "Available commands", FALSE))
        /\ UNCHANGED files
        /\ Executed(line)

Version ==
    \E line \in Lines :
        /\ Reads(line, "version")
        /\ Returned(Result(config, "Crypto Trading Shell v0.1", FALSE))
        /\ UNCHANGED files
        /\ Executed(line)

ListExchanges ==
    \E line \in Lines :
        /\ Reads(line, "list_exchanges")
        /\ Returned(do_list_exchanges(config))
        /\ UNCHANGED files
        /\ Executed(line)

ListStrategies ==
    \E line \in Lines :
        /\ Reads(line, "list_strategies")
        /\ Returned(do_list_strategies(config))
        /\ UNCHANGED files
        /\ Executed(line)

ShowConfig ==
    \E line \in Lines :
        /\ Reads(line, "show_config")
        /\ Returned(do_show_config(config))
        /\ UNCHANGED files
        /\ Executed(line)

SetParameter ==
    \E line \in Lines :
        /\ Reads(line, "set_parameter")
        /\ Returned(do_set_parameter(config, line.words))
        /\ UNCHANGED files
        /\ Executed(line)

SaveConfig ==
    \E line \in Lines :
        /\ Reads(line, "save_config")
        /\ LET res == do_save_config(config, files, readOnly, line.farg)
           IN /\ files' = res.files
              /\ Returned(Result(config, res.out, FALSE))
        /\ Executed(line)

LoadConfig ==
    \E line \in Lines :
        /\ Reads(line, "load_config")
        /\ Returned(do_load_config(config, files, line.farg))
        /\ UNCHANGED files
        /\ Executed(line)

RunBacktest ==
    \E line \in Lines :
        /\ Reads(line, "run_backtest")
        /\ Returned(do_run_backtest(config))
        /\ UNCHANGED files
        /\ Executed(line)

EmptyLine ==
    \E line \in Lines :
        /\ Reads(line, "emptyline")
        /\ Returned(Result(config, "", FALSE))
        /\ UNCHANGED files
        /\ Executed(line)

Default ==
    \E line \in Lines :
        /\ Reads(line, "default")
        /\ Returned(Result(config, "Unknown command", FALSE))
        /\ UNCHANGED files
        /\ Executed(line)

Next ==
    \/ Exit \/ Quit \/ Help \/ Version
    \/ ListExchanges \/ ListStrategies \/ ShowConfig
    \/ SetParameter \/ SaveConfig \/ LoadConfig \/ RunBacktest
    \/ EmptyLine \/ Default

Spec == Init /\ [][Next]_vars

\* The sessions in which load_config is never typed.
NextNoLoad ==
    \/ Exit \/ Quit \/ Help \/ Version
    \/ ListExchanges \/ ListStrategies \/ ShowConfig
    \/ SetParameter \/ SaveConfig \/ RunBacktest
    \/ EmptyLine \/ Default

SpecNoLoad == Init /\ [][NextNoLoad]_vars

(***************************************************************************)
(* The run of the trading bot: the framework calls initialize once and     *)
(* then on_trading_iteration once per sleep time.  The shell does not run  *)
(* in the bot's process.                                                   *)
(***************************************************************************)
ShellNotStarted ==
    /\ config = DefaultConfig
    /\ files = [f \in FileNames |-> Absent]
    /\ readOnly = {}
    /\ loop = "stopped"
    /\ out = ""
    /\ hist = [line |-> NoLine, pre |-> DefaultConfig]
    /\ prevSave = NoSave
    /\ ncmds = 0

StrategyInit == ShellNotStarted /\ TraderCreated

Initialize ==
    /\ strategy = "created"
    /\ \E risk \in RiskValues :
          LET r == initialize(risk)
          IN  /\ last_trade' = r.last_trade
              /\ cash_at_risk' = r.cash_at_risk
    /\ strategy' = "initialized"
    /\ last_order' = "None"
    /\ UNCHANGED <<iteration, niter>>
    /\ UNCHANGED shellVars

OnTradingIteration ==
    /\ strategy = "initialized"
    /\ niter < MaxIters
    /\ \E cash \in CashValues, last_price \in PriceValues, choice \in Choices :
          LET r == on_trading_iteration(last_trade, cash, last_price, cash_at_risk, choice)
          IN  /\ iteration' = r
              /\ last_trade' = r.last_trade
              /\ last_order' = IF Submitted(r.calls) = <<>> THEN last_order
                               ELSE Submitted(r.calls)[Len(Submitted(r.calls))].side
    /\ niter' = niter + 1
    /\ UNCHANGED <<strategy, cash_at_risk>>
    /\ UNCHANGED shellVars

StrategyNext == Initialize \/ OnTradingIteration

StrategySpec == StrategyInit /\ [][StrategyNext]_vars

(***************************************************************************)
(* What the last executed line was                                         *)
(***************************************************************************)
LastHandler == IF hist.line = NoLine THEN "(none)" ELSE Handler(hist.line.cmd)
SetAttempted == LastHandler = "set_parameter" /\ Len(hist.line.words) >= 2
LastSetName == Lower(hist.line.words[1].text)
LastSetWord == hist.line.words[2]

\* The validation rules as the specification states them (section 4.1).
RuleHolds(name, w) ==
    CASE name = "exchange" -> w.text \in available_exchanges
      [] name = "strategy" -> w.text \in available_strategies
      [] name = "cash_at_risk" ->
            w.shape = "num" /\ w.b >= -3 /\ w.a > 0 /\ w.a * Pow10(w.b + 3) <= 1000
      [] name \in {"start_date", "end_date"} ->
            w.shape = "ymd" /\ w.sep = "-" /\ w.b \in 1..12 /\ w.c \in 1..DaysInMonth(w.a, w.b)
      [] OTHER -> TRUE

\* The value the specification says is stored: the number for cash_at_risk,
\* the text as typed for every other key.
RuleValue(name, w) ==
    IF name = "cash_at_risk" THEN PyFloat(w.a * Pow10(w.b + 3)) ELSE PyStr(w.text)

ValidationErrors ==
    {"Error: Unknown exchange", "Error: Unknown strategy",
     "Error: cash_at_risk must be a float value", "Error: cash_at_risk must be between 0 and 1",
     "Error: Invalid date format"}

\* C1: set_parameter <name> <value> with a recognized name and a value that
\* satisfies the name's rule leaves exactly that value under that key and
\* every other key unchanged, in any reachable state.
C1_SetStoresValue ==
    (SetAttempted /\ LastSetName \in ConfigKeys /\ RuleHolds(LastSetName, LastSetWord))
    => /\ loop = "running"
       /\ config.kind = "dict"
       /\ hist.pre.kind = "dict"
       /\ DOMAIN config.m = DOMAIN hist.pre.m
       /\ LastSetName \in DOMAIN config.m
       /\ config.m[LastSetName] = RuleValue(LastSetName, LastSetWord)
       /\ \A k \in DOMAIN config.m \ {LastSetName} : config.m[k] = hist.pre.m[k]

\* C2: set_parameter with a value that violates the rule of its parameter
\* leaves the whole configuration unchanged, prints a validation error and
\* the loop continues.
C2_InvalidValueRejected ==
    (/\ SetAttempted
     /\ LastSetName \in {"exchange", "strategy", "cash_at_risk", "start_date", "end_date"}
     /\ ~RuleHolds(LastSetName, LastSetWord))
    => /\ config = hist.pre
       /\ out \in ValidationErrors
       /\ loop = "running"

\* C3: set_parameter with a name that is not one of the eight keys is
\* rejected with an error and leaves the configuration untouched, in any
\* reachable state.
C3_UnknownNameRejected ==
    (SetAttempted /\ LastSetName \notin ConfigKeys)
    => /\ config = hist.pre
       /\ out = "Error: Unknown parameter"
       /\ loop = "running"

\* C4: in every reachable state the key set of the configuration is exactly
\* the eight fixed keys.
C4_KeySetFixed == config.kind = "dict" /\ DOMAIN config.m = ConfigKeys

\* A stored cash_at_risk that is a number in (0,1].
FractionInRange(v) ==
    \/ v.t = "float" /\ v.s # "nan" /\ v.n > 0 /\ v.n <= 1000
    \/ v.t = "int" /\ v.n = 1

\* C5: in every reachable state exchange and strategy are members of their
\* lists, cash_at_risk is a number in (0,1] and both dates parse as
\* YYYY-MM-DD.
C5_ValuesInDomain ==
    /\ HasItem(config, "exchange")
    /\ config.m["exchange"].t = "str"
    /\ config.m["exchange"].s \in available_exchanges
    /\ HasItem(config, "strategy")
    /\ config.m["strategy"].t = "str"
    /\ config.m["strategy"].s \in available_strategies
    /\ HasItem(config, "cash_at_risk")
    /\ FractionInRange(config.m["cash_at_risk"])
    /\ StoredDateOk(config, "start_date")
    /\ StoredDateOk(config, "end_date")

C7_LoadMissingFile ==
    (LastHandler = "load_config" /\ files[LoadFilename(hist.line.farg)].state = "absent")
    => /\ config = hist.pre
       /\ out = "Error: File not found"
       /\ loop = "running"

\* A missing file was named while the configuration was not the default one.
C7_Witness ==
    /\ LastHandler = "load_config"
    /\ files[LoadFilename(hist.line.farg)].state = "absent"
    /\ hist.pre # DefaultConfig
    /\ out = "Error: File not found"

\* C8: load_config of a file that is not well-formed JSON leaves the
\* configuration unchanged, reports a JSON-format error and the loop
\* continues.
C8_LoadMalformedFile ==
    (LastHandler = "load_config" /\ files[LoadFilename(hist.line.farg)].state = "malformed")
    => /\ config = hist.pre
       /\ out = "Error: Invalid JSON format"
       /\ loop = "running"

\* A malformed file was named while the configuration was not the default one.
C8_Witness ==
    /\ LastHandler = "load_config"
    /\ files[LoadFilename(hist.line.farg)].state = "malformed"
    /\ hist.pre # DefaultConfig
    /\ out = "Error: Invalid JSON format"

\* C9: the loop stops only on the command names exit and quit; every other
\* line keeps it running; an unknown command or an empty line leaves the
\* configuration unchanged and an unknown command prints 'Unknown command'.
C9_OnlyExitStops ==
    /\ (loop # "running") => hist.line.cmd \in {"exit", "quit"}
    /\ (LastHandler \in {"default", "emptyline"}) => (config = hist.pre /\ loop = "running")
    /\ (LastHandler = "default") => out = "Unknown command"

\* C10: no command other than exit/quit ends the command loop, whatever
\* was loaded before.
C10_NoCommandEndsLoop ==
    (LastHandler \in {"show_config", "list_exchanges", "list_strategies", "set_parameter",
                      "save_config", "load_config", "run_backtest"})
    => loop = "running"

\* A loaded value is the value the JSON literal denotes.
DenotedBy(v, l) ==
    \/ l.j = "string" /\ v.t = "str" /\ v.s = l.s
    \/ l.j = "NaN" /\ v.t = "float" /\ v.s = "nan"
    \/ l.j = "number" /\ l.frac /\ v.t = "float" /\ v.s = "" /\ v.n = l.n
    \/ l.j = "number" /\ ~l.frac /\ v.t = "int" /\ v.n = l.n

\* The configuration is the content of the JSON text: same type, same keys,
\* same values.
IsContentOf(cfg, text) ==
    CASE text.top = "object" ->
            /\ cfg.kind = "dict"
            /\ DOMAIN cfg.m = DOMAIN text.members
            /\ \A k \in DOMAIN cfg.m : DenotedBy(cfg.m[k], text.members[k])
      [] text.top = "array" -> cfg.kind = "list" /\ cfg.elems = text.elems
      [] OTHER -> cfg.kind = "num"

\* C13: load_config of a file holding well-formed JSON replaces the
\* configuration wholesale with the file's content, without any of
\* set_parameter's validation.
C13_LoadReplacesWholesale ==
    (LastHandler = "load_config" /\ files[LoadFilename(hist.line.farg)].state = "json")
    => /\ out = "Configuration loaded"
       /\ loop = "running"
       /\ IsContentOf(config, files[LoadFilename(hist.line.farg)])

\* A file with an unlisted exchange, cash_at_risk 1.5, a malformed date, an
\* extra key and missing keys has been loaded over another configuration.
C13_Witness ==
    /\ LastHandler = "load_config"
    /\ out = "Configuration loaded"
    /\ hist.pre.kind = "dict"
    /\ DOMAIN hist.pre.m = ConfigKeys
    /\ config.kind = "dict"
    /\ DOMAIN config.m = {"exchange", "cash_at_risk", "start_date", "foo"}
    /\ config.m["exchange"] = PyStr("foo")
    /\ config.m["cash_at_risk"] = PyFloat(1500)
    /\ config.m["start_date"] = PyStr("2023/01/01")

\* The configuration differs from the one before the line in the value of
\* exactly one key.
OneKeyChanged(new, old) ==
    /\ new.kind = "dict" /\ old.kind = "dict"
    /\ DOMAIN new.m = DOMAIN old.m
    /\ Cardinality({k \in DOMAIN new.m : new.m[k] # old.m[k]}) = 1

\* C14: help, version, list_exchanges, list_strategies, show_config,
\* save_config and run_backtest never modify the configuration, whether
\* they succeed or fail; only set_parameter (one key) and a successful
\* load_config (the whole store) change it.
C14_OnlySetAndLoadModify ==
    /\ (LastHandler \in {"help", "version", "list_exchanges", "list_strategies",
                         "show_config", "save_config", "run_backtest"})
       => config = hist.pre
    /\ (config # hist.pre)
       => \/ LastHandler = "set_parameter" /\ OneKeyChanged(config, hist.pre)
          \/ LastHandler = "load_config" /\ out = "Configuration loaded"

\* run_backtest failed, or save_config failed, on a configuration that is
\* not the default one, and left it as it was.
C14_Witness ==
    /\ LastHandler \in {"run_backtest", "save_config"}
    /\ out \in {"Error running backtest", "Error saving configuration"}
    /\ hist.pre # DefaultConfig
    /\ config = hist.pre

\* C15: without load_config, run_backtest never takes its error branch:
\* both dates parse and the keys it reads are present.
C15_BacktestAssembles ==
    /\ (LastHandler = "run_backtest") => out = "Note: This is a placeholder"
    /\ StoredDateOk(config, "start_date")
    /\ StoredDateOk(config, "end_date")
    /\ \A k \in {"exchange", "coin", "quote", "strategy"} : HasItem(config, k)

\* run_backtest ran after both dates had been set by set_parameter.
C15_Witness ==
    /\ LastHandler = "run_backtest"
    /\ out = "Note: This is a placeholder"
    /\ config.m["start_date"] = PyStr("2023-01-01")
    /\ config.m["end_date"] = PyStr("2024-02-29")

\* The file an argument names, as the claim states the rule.
ClaimedFile(arg) ==
    IF Len(arg) = 0 THEN <<"crypto_config", ".json">>
    ELSE IF arg[Len(arg)] = ".json" THEN arg
    ELSE arg \o <<".json">>

Iterated == niter > 0

Opposite(side) == IF side = "buy" THEN "sell" ELSE "buy"

ChosenSide == IF iteration.choice = 1 THEN "buy" ELSE "sell"

SellAllCalls == {i \in DOMAIN iteration.calls : iteration.calls[i] = SellAll}

SubmitCalls == {i \in DOMAIN iteration.calls : IsSubmit(iteration.calls[i])}

OrderCalls == {i \in DOMAIN iteration.calls : iteration.calls[i].op = "create_order"}

\* C11: on a trading iteration whose price lookup returns no value, the
\* quantity is zero, no order is created or submitted, sell_all is not
\* called, last_trade is unchanged and no exception leaves
\* on_trading_iteration.
C11_NoPriceNoOrder ==
    (Iterated /\ ~iteration.last_price.some) =>
        /\ iteration.quantity = Zero
        /\ OrderCalls = {}
        /\ SubmitCalls = {}
        /\ SellAllCalls = {}
        /\ last_trade = iteration.before
        /\ ~iteration.raised

\* An iteration without a price, run when the bot last bought and holds cash.
C11_Witness ==
    /\ Iterated
    /\ ~iteration.last_price.some
    /\ iteration.before = "buy"
    /\ iteration.cash = FromInt(1000)
    /\ last_trade = "buy"

\* C12: an iteration that decides buy (or sell) calls sell_all, strictly
\* before it submits the new order, exactly when last_trade is the opposite
\* side; it submits exactly one market order for the computed quantity on
\* the chosen side and leaves last_trade equal to that side.  An iteration
\* that decides hold submits nothing and leaves last_trade unchanged.
C12_DecisionCalls ==
    (Iterated /\ iteration.drew) =>
        IF iteration.choice = 0
        THEN /\ iteration.calls = <<>>
             /\ last_trade = iteration.before
        ELSE /\ iteration.choice \in {1, 2}
             /\ (iteration.before = Opposite(ChosenSide)) => Cardinality(SellAllCalls) = 1
             /\ (iteration.before # Opposite(ChosenSide)) => SellAllCalls = {}
             /\ \A i \in SellAllCalls : \A j \in SubmitCalls : i < j
             /\ Submitted(iteration.calls) = <<SubmitOrder(ChosenSide, iteration.quantity)>>
             /\ iteration.quantity = FDiv(FMul(iteration.cash, cash_at_risk), iteration.last_price.v)
             /\ last_trade = ChosenSide

\* A buy decided when the bot last sold: sell_all, then the order.
C12_Witness ==
    /\ Iterated
    /\ iteration.drew
    /\ iteration.choice = 1
    /\ iteration.before = "sell"
    /\ SellAllCalls = {1}
    /\ SubmitCalls = {3}
    /\ last_trade = "buy"

\* The sizing and the guards of one iteration (lines 31, 37 and 38).
SizedByFormula ==
    iteration.last_price.some =>
        iteration.quantity
            = FDiv(FMul(iteration.cash, cash_at_risk), iteration.last_price.v)

DrawnOnlyWhenAffordable ==
    iteration.drew =>
        /\ iteration.last_price.some
        /\ FGreater(iteration.quantity, Zero)
        /\ FGreater(iteration.cash, FMul(iteration.quantity, iteration.last_price.v))

DecisionOnlyWhenDrawn ==
    /\ iteration.drew <=> iteration.choice \in Choices
    /\ ~iteration.drew => iteration.calls = <<>>

\* C17 as stated: with a price the quantity is cash * cash_at_risk /
\* last_price, a decision is drawn only when quantity > 0 and cash >
\* quantity * last_price, at most one order is submitted per iteration, and
\* so no order is ever submitted with cash_at_risk = 1 or with cash <= 0.
C17_NoOrderAtFullRisk ==
    Iterated =>
        /\ SizedByFormula
        /\ DrawnOnlyWhenAffordable
        /\ DecisionOnlyWhenDrawn
        /\ Cardinality(SubmitCalls) <= 1
        /\ (cash_at_risk = FromInt(1) \/ ~FGreater(iteration.cash, Zero))
               => SubmitCalls = {}

\* C17, amended: the sizing, the guards and the bound of one order per
\* iteration hold, and no order is submitted with cash <= 0.  (With
\* cash_at_risk = 1 the rounded product quantity * last_price can fall
\* below cash, and then an order is submitted.)
C17_SizingAndGuards ==
    Iterated =>
        /\ SizedByFormula
        /\ DrawnOnlyWhenAffordable
        /\ DecisionOnlyWhenDrawn
        /\ Cardinality(SubmitCalls) <= 1
        /\ ~FGreater(iteration.cash, Zero) => SubmitCalls = {}

\* An order submitted with cash_at_risk = 1: cash 1 at price 49.
C17_Witness ==
    /\ Iterated
    /\ cash_at_risk = FromInt(1)
    /\ iteration.cash = FromInt(1)
    /\ iteration.last_price = Price(FromInt(49))
    /\ FGreater(iteration.cash, FMul(iteration.quantity, iteration.last_price.v))
    /\ Cardinality(SubmitCalls) = 1

\* C18: after initialize, last_trade is None, "buy" or "sell"; it is None
\* exactly when no order has been submitted since initialize and otherwise
\* the side of the order submitted last; an iteration that holds, has no
\* price or cannot afford the quantity leaves it unchanged.
C18_LastTradeIsLastOrder ==
    (strategy = "initialized") =>
        /\ last_trade \in {"None", "buy", "sell"}
        /\ last_trade = "None" <=> last_order = "None"
        /\ last_order # "None" => last_trade = last_order
        /\ (Iterated /\ (~iteration.drew \/ iteration.choice = 0))
               => last_trade = iteration.before

\* An iteration that could not afford its quantity, after a sell that
\* followed a buy.
C18_Witness ==
    /\ strategy = "initialized"
    /\ niter = 3
    /\ last_order = "sell"
    /\ last_trade = "sell"
    /\ iteration.last_price.some
    /\ ~iteration.drew
    /\ iteration.before = "sell"

====
